---- MODULE Spec2Model ----
(***************************************************************************)
(* Model of the session service generated by generate_session_system!     *)
(* (src/session-service/src/macros.rs): the session store, the three      *)
(* exported commands create_session, delete_session_from_program and      *)
(* delete_session_from_account, the delayed self-addressed cleanup        *)
(* messages that create_session sends, and the block clock.               *)
(*                                                                         *)
(* Each method is an operator that maps the store and the call's inputs   *)
(* to the Result the method returns, the store it leaves, the messages it *)
(* sent and the events it emitted, statement by statement as in the       *)
(* method body.  The three commands are exported with                     *)
(* #[export(unwrap_result)]: the generated handler unwraps the Result, so *)
(* an Err ends the execution in a panic and the host keeps none of the    *)
(* execution's changes (unwrap_result below).  The actions are the        *)
(* exported commands: the method followed by unwrap_result.               *)
(*                                                                         *)
(* Integer widths are scaled: u32 is U32Bits wide and u64 is U64Bits      *)
(* wide, so that the conversions and additions of create_session reach    *)
(* their limits inside the model.                                          *)
(***************************************************************************)
EXTENDS Naturals, Integers, Sequences, FiniteSets, Bags, TLC

\* ------------------------------------------------------------- bounds
\* Width of the block counter (u32 in the source), scaled.
U32Bits == 3
\* Width of durations and timestamps (u64 in the source), scaled.
U64Bits == U32Bits + 2
U32Max == 2^U32Bits - 1
U64Max == 2^U64Bits - 1
\* Last block height the clock advances to.
MaxHeight == 2
\* Most delayed messages pending at once.  The program sets no limit; the
\* model lets no call send a further message beyond this many, to stay
\* finite, and two are what a stale cleanup beside a replacement needs.
MaxScheduled == 2

\* ------------------------------------------------------------- data
\* Config as passed to Storage::new, scaled from the tests' 180000 ms and
\* 3000 ms per block: the minimum duration is not a multiple of the block
\* time and rounds up to one block.
config ==
    [gas_to_delete_session |-> 10,
     minimum_session_duration_ms |-> 1,
     ms_per_block |-> 2]

\* exec::program_id()
program_id == "program"

\* ActorIds of the model.  "alice" is also the public key of a key pair;
\* "bob" is 32 bytes that are no valid public key.
ActorIds == {"alice", "bob"}
ValidPublicKeys == {"alice"}
\* Holders of a secret key: alice, and eve, who owns no account here.
Signers == {"alice", "eve"}
\* Accounts that send messages to the program.
Sources == ActorIds

\* enum ActionsForSession and the allowed_actions lists requests carry.
ActionsForSession == {"StartGame", "Move", "Skip"}
ActionLists == {<< >>, <<"StartGame">>, <<"StartGame", "Move">>}

\* Durations requests carry: below the minimum, the minimum, the largest
\* whose block count fits u32, and the largest u64.
Durations ==
    {config.minimum_session_duration_ms - 1,
     config.minimum_session_duration_ms,
     U32Max * config.ms_per_block,
     U64Max}

\* struct SignatureData: every request the formulas range over.
SignatureDatas ==
    [key : ActorIds, duration : Durations,
     allowed_actions : {<< >>, <<"StartGame">>}]

\* The requests the state machine sends: every duration but the largest
\* that fits (the formulas cover it).
Requests ==
    {r \in SignatureDatas : r.duration # U32Max * config.ms_per_block}

\* Those of them that pass the checks of duration and action list.
AcceptableRequests ==
    {r \in Requests :
        /\ r.duration = config.minimum_session_duration_ms
        /\ r.allowed_actions # << >>}

VARIABLES
    sessions,         \* Storage.sessions : HashMap<ActorId, SessionData>
    scheduled,        \* delayed messages sent and not yet delivered (a bag)
    events,           \* events emitted by the latest call
    block_height,     \* exec::block_height()
    overflow_checks,  \* whether the build traps on integer overflow
    last              \* the latest call and its Result

vars == <<sessions, scheduled, events, block_height, overflow_checks, last>>

\* ------------------------------------------------------------- HashMap
\* HashMap::get(..).is_some()
contains_key(map, k) == k \in DOMAIN map

\* A faulty insert, for comparison: over an entry that is there it keeps
\* the key the entry had.
insert_keeping_key(map, k, v) ==
    [a \in DOMAIN map \cup {k} |->
        IF a # k THEN map[a]
        ELSE IF k \in DOMAIN map THEN [v EXCEPT !.key = map[k].key]
        ELSE v]

\* Another faulty insert, for comparison: over an entry that is there it
\* keeps the entry and stores the new record beside it, in a second slot.
insert_beside(map, k, v) ==
    IF k \in DOMAIN map
    THEN [a \in DOMAIN map \cup {"second slot"} |->
             IF a = "second slot" THEN v ELSE map[a]]
    ELSE [a \in DOMAIN map \cup {k} |-> IF a = k THEN v ELSE map[a]]

\* HashMap::entry(k).insert(v): whole-record overwrite.
insert(map, k, v) == [a \in DOMAIN map \cup {k} |-> IF a = k THEN v ELSE map[a]]

\* HashMap::remove(k)
remove(map, k) == [a \in DOMAIN map \ {k} |-> map[a]]

\* ------------------------------------------------------------- arithmetic
\* u64::div_ceil
div_ceil(a, b) == (a \div b) + (IF a % b > 0 THEN 1 ELSE 0)

\* u32::try_from(u64)
u32_try_from(x) ==
    IF x <= U32Max THEN [ok |-> TRUE, value |-> x] ELSE [ok |-> FALSE, value |-> 0]

\* a + b on unsigned integers of maximum max: exact when it fits; otherwise
\* a panic in a build with overflow checks and a wrapped sum without.
add(a, b, max) ==
    IF a + b <= max THEN [panic |-> FALSE, value |-> a + b]
    ELSE IF overflow_checks THEN [panic |-> TRUE, value |-> 0]
    ELSE [panic |-> FALSE, value |-> (a + b) % (max + 1)]

\* exec::block_timestamp(): the host's clock, ms_per_block per block.
block_timestamp(height) == height * config.ms_per_block

\* ------------------------------------------------------------- signatures
\* SignatureData::encode(): SCALE lays the fields out in order, the Vec
\* with its length first.
encode(signature_data) ==
    <<signature_data.key, signature_data.duration,
      Len(signature_data.allowed_actions)>> \o signature_data.allowed_actions

\* "<Bytes>" ++ message ++ "</Bytes>"
complete_message(message) == <<"<Bytes>">> \o message \o <<"</Bytes>">>

\* Option<Vec<u8>> values.  A well-formed signature is what the holder of
\* signer's secret key produces for (context, message); a malformed one is
\* bytes Signature::from_bytes rejects.
None == [some |-> FALSE, well_formed |-> FALSE, signer |-> "-",
         context |-> "-", message |-> << >>]
Malformed == [some |-> TRUE, well_formed |-> FALSE, signer |-> "-",
              context |-> "-", message |-> << >>]
sign_simple(signer, context, message) ==
    [some |-> TRUE, well_formed |-> TRUE, signer |-> signer,
     context |-> context, message |-> message]

\* What the holder of signer's key signs to let delegate act for duration
\* with allowed_actions.
grant(signer, delegate, duration, allowed_actions) ==
    sign_simple(signer, "substrate",
                complete_message(encode([key |-> delegate, duration |-> duration,
                                         allowed_actions |-> allowed_actions])))

\* The signatures the formulas range over for a request from msg_source:
\* none, malformed bytes, the grant the request needs, and signatures
\* that differ from it in the signer, the delegate, the duration, the
\* action list, the wrapping or the signing context.
Signatures(msg_source, signature_data) ==
    LET k == signature_data.key
        d == signature_data.duration
        a == signature_data.allowed_actions
    IN  {None, Malformed}
        \cup {grant(s, msg_source, d, a) : s \in Signers \cup {k}}
        \cup {grant(k, x, d, a) : x \in ActorIds}
        \cup {grant(k, msg_source, x, a) : x \in Durations}
        \cup {grant(k, msg_source, d, x) : x \in ActionLists \ {<< >>}}
        \cup {sign_simple(k, "substrate",
                          encode([key |-> msg_source, duration |-> d,
                                  allowed_actions |-> a])),
              sign_simple(k, "other",
                          complete_message(encode([key |-> msg_source, duration |-> d,
                                                   allowed_actions |-> a])))}

\* The signatures the state machine presents besides none: malformed
\* bytes, the grant the request needs and a grant for the other account.
Presented(msg_source, signature_data) ==
    {Malformed}
    \cup {grant(signature_data.key, x, signature_data.duration,
                signature_data.allowed_actions) : x \in Sources}

\* What the host lets a call do: send and emit, fail the send, or send
\* and fail the emit.
HostOutcomes ==
    {[send_ok |-> TRUE, emit_ok |-> TRUE],
     [send_ok |-> FALSE, emit_ok |-> TRUE],
     [send_ok |-> TRUE, emit_ok |-> FALSE]}

CreateCall(source, signature_data, signature, host) ==
    [source |-> source, signature_data |-> signature_data,
     signature |-> signature, send_ok |-> host.send_ok, emit_ok |-> host.emit_ok]

\* The create_session calls the state machine makes: every request
\* without a signature, every acceptable request with each presented
\* signature, and every acceptable request, unsigned or with its grant,
\* under each host outcome.
CreateCalls ==
    {CreateCall(s, r, None, [send_ok |-> TRUE, emit_ok |-> TRUE]) :
        s \in Sources, r \in Requests}
    \cup UNION {{CreateCall(s, r, g, [send_ok |-> TRUE, emit_ok |-> TRUE]) :
                    g \in Presented(s, r)} :
                s \in Sources, r \in AcceptableRequests}
    \cup UNION {{CreateCall(s, r, g, h) :
                    g \in {None, grant(r.key, s, r.duration, r.allowed_actions)}} :
                s \in Sources, r \in AcceptableRequests, h \in HostOutcomes}

\* A faulty verify, for comparison: it checks who signed and in which
\* context, never what was signed.
verify_signer_only(signature, message, pubkey) ==
    IF ~signature.well_formed THEN "BadSignature"
    ELSE IF pubkey \notin ValidPublicKeys THEN "BadPublicKey"
    ELSE IF signature.signer = pubkey /\ signature.context = "substrate"
         THEN "Ok"
         ELSE "VerificationFailed"

\* fn verify(signature, message, pubkey)
verify(signature, message, pubkey) ==
    IF ~signature.well_formed THEN "BadSignature"
    ELSE IF pubkey \notin ValidPublicKeys THEN "BadPublicKey"
    ELSE IF /\ signature.signer = pubkey
            /\ signature.context = "substrate"
            /\ signature.message = message
         THEN "Ok"
         ELSE "VerificationFailed"

\* ------------------------------------------------------------- commands
\* A faulty lookup, for comparison: it only refuses an owner whose
\* session has expired.
check_if_session_exists_expired(session_map, account, height) ==
    IF /\ contains_key(session_map, account)
       /\ session_map[account].expires_at_block < height
    THEN "AlreadyHaveActiveSession"
    ELSE "Ok"

\* fn check_if_session_exists(session_map, account)
check_if_session_exists(session_map, account, height) ==
    IF /\ contains_key(session_map, account)
       /\ session_map[account].expires_at_block > height
    THEN "AlreadyHaveActiveSession"
    ELSE "Ok"

\* enum SessionError
SessionError ==
    {"BadSignature", "BadPublicKey", "VerificationFailed", "DurationIsSmall",
     "DurationIsLarge", "ThereAreNoAllowedMessages", "MessageOnlyForProgram",
     "TooEarlyToDeleteSession", "NoSession", "AlreadyHaveActiveSession",
     "SendMessageFailed", "EmitEventFailed"}

\* What a call returns and leaves behind.
Outcome(result, session_map, sent, emitted) ==
    [result |-> result, sessions |-> session_map, sent |-> sent, events |-> emitted]

\* The delayed message create_session sends to the program itself.
cleanup_message(account, number_of_blocks) ==
    [destination |-> program_id,
     payload |-> <<"Session", "DeleteSessionFromProgram", account>>,
     gas |-> config.gas_to_delete_session,
     value |-> 0,
     delay |-> number_of_blocks]

\* A faulty payload, for comparison: it names the owner's key, so that one
\* grant serves every sender.
signed_message_for_key(msg_source, signature_data) ==
    complete_message(encode(signature_data))

\* The bytes create_session verifies the signature against: the request
\* with the sender in place of the key, encoded and wrapped.
signed_message(msg_source, signature_data) ==
    complete_message(encode([key |-> msg_source,
                             duration |-> signature_data.duration,
                             allowed_actions |-> signature_data.allowed_actions]))

\* Faulty arms, for comparison: owner and delegate change places.
session_parties_swapped(msg_source, signature_data, signature) ==
    IF signature.some
    THEN [account |-> msg_source, key |-> signature_data.key]
    ELSE [account |-> signature_data.key, key |-> msg_source]

\* The two arms of `match signature`: the account the session is stored
\* under and the key stored in it.
session_parties(msg_source, signature_data, signature) ==
    IF signature.some
    THEN [account |-> signature_data.key, key |-> msg_source]
    ELSE [account |-> msg_source, key |-> signature_data.key]

\* The end of create_session, after the insert: send the delayed cleanup
\* message, then emit SessionCreated.  session_map is the store before
\* the insert and inserted the store after it.
send_and_emit(session_map, inserted, request, send_ok, emit_ok) ==
    IF ~send_ok THEN Outcome("SendMessageFailed", inserted, << >>, << >>)
    ELSE IF ~emit_ok THEN Outcome("EmitEventFailed", inserted, <<request>>, << >>)
    ELSE Outcome("Ok", inserted, <<request>>, <<"SessionCreated">>)

\* A faulty test of the duration, for comparison: it refuses the minimum
\* itself.
duration_is_small_or_minimum(signature_data) ==
    signature_data.duration <= config.minimum_session_duration_ms

\* The first test of create_session: the duration is below the minimum.
duration_is_small(signature_data) ==
    signature_data.duration < config.minimum_session_duration_ms

\* A faulty test of the action list, for comparison: it lets every list
\* pass.
no_allowed_actions_ignored(signature_data) == FALSE

\* Another faulty test of the action list, for comparison: it refuses the
\* lists that have actions.
no_allowed_actions_inverted(signature_data) ==
    signature_data.allowed_actions # << >>

\* The test of create_session on the action list: it is empty.
no_allowed_actions(signature_data) ==
    signature_data.allowed_actions = << >>

\* SessionService::create_session.  send_ok and emit_ok are the outcomes
\* of msg::send_bytes_with_gas_delayed and of emit_event.
create_session(session_map, msg_source, height, signature_data, signature, send_ok, emit_ok) ==
    LET Err(e) == Outcome(e, session_map, << >>, << >>)
        expires == add(block_timestamp(height), signature_data.duration, U64Max)
        number_of_blocks ==
            u32_try_from(div_ceil(signature_data.duration, config.ms_per_block))
        parties == session_parties(msg_source, signature_data, signature)
        exists == check_if_session_exists(session_map, parties.account, height)
        verified ==
            IF signature.some
            THEN verify(signature, signed_message(msg_source, signature_data),
                        signature_data.key)
            ELSE "Ok"
        expires_at_block == add(height, number_of_blocks.value, U32Max)
        inserted ==
            insert(session_map, parties.account,
                   [key |-> parties.key,
                    expires |-> expires.value,
                    allowed_actions |-> signature_data.allowed_actions,
                    expires_at_block |-> expires_at_block.value])
        request == cleanup_message(parties.account, number_of_blocks.value)
    IN  IF duration_is_small(signature_data)
        THEN Err("DurationIsSmall")
        ELSE IF expires.panic THEN Err("Panic")
        ELSE IF ~number_of_blocks.ok THEN Err("DurationIsLarge")
        ELSE IF no_allowed_actions(signature_data)
        THEN Err("ThereAreNoAllowedMessages")
        ELSE IF exists # "Ok" THEN Err(exists)
        ELSE IF verified # "Ok" THEN Err(verified)
        ELSE IF expires_at_block.panic THEN Err("Panic")
        ELSE send_and_emit(session_map, inserted, request, send_ok, emit_ok)

\* A faulty delete_session_from_program, for comparison: it serves every
\* sender.
delete_session_from_program_by_anyone(session_map, msg_source, session_for_account, height, emit_ok) ==
    LET removed == remove(session_map, session_for_account)
    IN  IF /\ contains_key(session_map, session_for_account)
           /\ session_map[session_for_account].expires_at_block > height
        THEN Outcome("TooEarlyToDeleteSession", removed, << >>, << >>)
        ELSE IF ~emit_ok
        THEN Outcome("EmitEventFailed", removed, << >>, << >>)
        ELSE Outcome("Ok", removed, << >>, <<"SessionDeleted">>)

\* A faulty delete_session_from_program, for comparison: with nothing to
\* remove it reports NoSession.
delete_session_from_program_strict(session_map, msg_source, session_for_account, height, emit_ok) ==
    IF msg_source # program_id
    THEN Outcome("MessageOnlyForProgram", session_map, << >>, << >>)
    ELSE IF ~contains_key(session_map, session_for_account)
    THEN Outcome("NoSession", session_map, << >>, << >>)
    ELSE IF session_map[session_for_account].expires_at_block > height
    THEN Outcome("TooEarlyToDeleteSession",
                 remove(session_map, session_for_account), << >>, << >>)
    ELSE IF ~emit_ok
    THEN Outcome("EmitEventFailed", remove(session_map, session_for_account),
                 << >>, << >>)
    ELSE Outcome("Ok", remove(session_map, session_for_account), << >>,
                 <<"SessionDeleted">>)

\* SessionService::delete_session_from_program
delete_session_from_program(session_map, msg_source, session_for_account, height, emit_ok) ==
    IF msg_source # program_id
    THEN Outcome("MessageOnlyForProgram", session_map, << >>, << >>)
    ELSE LET removed == remove(session_map, session_for_account)
         IN  IF /\ contains_key(session_map, session_for_account)
                /\ session_map[session_for_account].expires_at_block > height
             THEN Outcome("TooEarlyToDeleteSession", removed, << >>, << >>)
             ELSE IF ~emit_ok
             THEN Outcome("EmitEventFailed", removed, << >>, << >>)
             ELSE Outcome("Ok", removed, << >>, <<"SessionDeleted">>)

\* A faulty delete_session_from_account, for comparison: with nothing to
\* remove it succeeds all the same.
delete_session_from_account_lenient(session_map, msg_source, emit_ok) ==
    IF ~emit_ok
    THEN Outcome("EmitEventFailed", remove(session_map, msg_source), << >>, << >>)
    ELSE Outcome("Ok", remove(session_map, msg_source), << >>, <<"SessionDeleted">>)

\* SessionService::delete_session_from_account
delete_session_from_account(session_map, msg_source, emit_ok) ==
    LET removed == remove(session_map, msg_source)
    IN  IF ~contains_key(session_map, msg_source)
        THEN Outcome("NoSession", removed, << >>, << >>)
        ELSE IF ~emit_ok THEN Outcome("EmitEventFailed", removed, << >>, << >>)
        ELSE Outcome("Ok", removed, << >>, <<"SessionDeleted">>)

\* A faulty handler, for comparison: it reports the Err and keeps what the
\* method did before it returned.
unwrap_result_keeping_changes(out, session_map) == out

\* #[export(unwrap_result)]: the handler generated for an exported command
\* unwraps the method's Result.  Ok goes to the caller with the method's
\* changes; an Err (and a panic inside the method) ends the execution in a
\* panic that carries the error, and the host keeps none of the
\* execution's changes: the store is as before the call, no message is
\* sent and no event is emitted.
unwrap_result(out, session_map) ==
    IF out.result = "Ok" THEN out
    ELSE Outcome(out.result, session_map, << >>, << >>)

\* Whether the execution of an exported command ended in a panic: it does
\* whenever the method did not return Ok.
panicked(out) == out.result # "Ok"

\* SessionService::session_for_the_account: Some(session) or None.
session_for_the_account(session_map, account) ==
    IF contains_key(session_map, account) THEN <<session_map[account]>> ELSE << >>

\* ------------------------------------------------------------- host
\* The delayed messages of a call, stamped with the block at which the
\* host puts them in the queue.
Scheduled(sent, height) ==
    IF sent = << >> THEN EmptyBag
    ELSE SetToBag({[payload |-> sent[1].payload, gas |-> sent[1].gas,
                    deliver_at |-> height + sent[1].delay]})

\* The latest call: the command, the account it is about (the owner a
\* create_session names, the argument of delete_session_from_program, the
\* sender of delete_session_from_account), whether it carried a signature
\* and the Result.
Call(op, account, signed, result) ==
    [op |-> op, account |-> account, signed |-> signed, result |-> result]

\* ------------------------------------------------------------- actions
Init ==
    /\ sessions = << >>
    /\ scheduled = EmptyBag
    /\ events = << >>
    /\ block_height = 0
    /\ overflow_checks \in BOOLEAN
    /\ last = Call("new", "-", FALSE, "Ok")

\* A message from source carrying Session/CreateSession.
CreateSession(source, signature_data, signature, send_ok, emit_ok) ==
    /\ LET out == unwrap_result(
                      create_session(sessions, source, block_height,
                                     signature_data, signature, send_ok, emit_ok),
                      sessions)
       IN  /\ out.sent # << >> => BagCardinality(scheduled) < MaxScheduled
           /\ sessions' = out.sessions
           /\ scheduled' = scheduled (+) Scheduled(out.sent, block_height)
           /\ events' = out.events
           /\ last' = Call("create_session",
                           IF signature.some THEN signature_data.key ELSE source,
                           signature.some, out.result)
    /\ UNCHANGED <<block_height, overflow_checks>>

\* A message from an account carrying Session/DeleteSessionFromProgram.
DeleteSessionFromProgram(source, session_for_account, emit_ok) ==
    /\ LET out == unwrap_result(
                      delete_session_from_program(sessions, source,
                                                  session_for_account,
                                                  block_height, emit_ok),
                      sessions)
       IN  /\ sessions' = out.sessions
           /\ events' = out.events
           /\ last' = Call("delete_session_from_program", session_for_account,
                           FALSE, out.result)
    /\ UNCHANGED <<scheduled, block_height, overflow_checks>>

\* The host delivers a due cleanup message: the program is its sender.
DeliverCleanup(m, emit_ok) ==
    /\ BagIn(m, scheduled)
    /\ m.deliver_at <= block_height
    /\ LET out == unwrap_result(
                      delete_session_from_program(sessions, program_id,
                                                  m.payload[3], block_height,
                                                  emit_ok),
                      sessions)
       IN  /\ sessions' = out.sessions
           /\ events' = out.events
           /\ last' = Call("cleanup", m.payload[3], FALSE, out.result)
    /\ scheduled' = scheduled (-) SetToBag({m})
    /\ UNCHANGED <<block_height, overflow_checks>>

\* A message from source carrying Session/DeleteSessionFromAccount.
DeleteSessionFromAccount(source, emit_ok) ==
    /\ LET out == unwrap_result(
                      delete_session_from_account(sessions, source, emit_ok),
                      sessions)
       IN  /\ sessions' = out.sessions
           /\ events' = out.events
           /\ last' = Call("delete_session_from_account", source, FALSE,
                           out.result)
    /\ UNCHANGED <<scheduled, block_height, overflow_checks>>

\* The chain produces the next block.
NextBlock ==
    /\ block_height < MaxHeight
    /\ block_height' = block_height + 1
    /\ events' = << >>
    /\ last' = Call("next_block", "-", FALSE, "Ok")
    /\ UNCHANGED <<sessions, scheduled, overflow_checks>>

Next ==
    \/ \E c \in CreateCalls :
          CreateSession(c.source, c.signature_data, c.signature, c.send_ok, c.emit_ok)
    \/ \E source \in Sources, account \in ActorIds, emit_ok \in BOOLEAN :
          DeleteSessionFromProgram(source, account, emit_ok)
    \/ \E m \in BagToSet(scheduled), emit_ok \in BOOLEAN : DeliverCleanup(m, emit_ok)
    \/ \E source \in Sources, emit_ok \in BOOLEAN :
          DeleteSessionFromAccount(source, emit_ok)
    \/ NextBlock

Spec == Init /\ [][Next]_vars

\* The cleanup messages that can be pending: one owner each, due at a block.
CleanupMessages ==
    [payload : {<<"Session", "DeleteSessionFromProgram", a>> : a \in ActorIds},
     gas : {config.gas_to_delete_session},
     deliver_at : 0 .. MaxHeight + U32Max]

\* The host keeps producing blocks and delivers every delayed message that
\* is due.
LiveSpec ==
    /\ Spec
    /\ WF_vars(NextBlock)
    /\ \A m \in CleanupMessages :
           WF_vars(\E emit_ok \in BOOLEAN : DeliverCleanup(m, emit_ok))

\* ------------------------------------------------------------- claims
\* The account under which a create_session call stores its session.
OwnerOf(source, signature_data, signature) ==
    IF signature.some THEN signature_data.key ELSE source

\* account has a stored session that is still active at the current block.
Active(account) ==
    /\ account \in DOMAIN sessions
    /\ sessions[account].expires_at_block > block_height

\* The requests that pass the checks of duration and action list.
Acceptable(signature_data) ==
    /\ signature_data.duration >= config.minimum_session_duration_ms
    /\ div_ceil(signature_data.duration, config.ms_per_block) <= U32Max
    /\ signature_data.allowed_actions # << >>

\* Every create_session call the formulas range over: each sender and
\* request without a signature, with malformed bytes and with the grant
\* it needs, and each acceptable request with every other signature too.
Calls ==
    UNION {{[source |-> s, signature_data |-> sd, signature |-> g] :
              g \in IF Acceptable(sd)
                    THEN Signatures(s, sd)
                    ELSE {None, Malformed,
                          grant(sd.key, s, sd.duration, sd.allowed_actions)}} :
           s \in Sources, sd \in SignatureDatas}

\* The outcome of call c made in the current state under host outcome h.
Created(c, h) ==
    unwrap_result(create_session(sessions, c.source, block_height,
                                 c.signature_data, c.signature, h.send_ok,
                                 h.emit_ok),
                  sessions)

\* The outcome of delete_session_from_program sent by source for account
\* in the current state.
DeletedFromProgram(source, account, emit_ok) ==
    unwrap_result(delete_session_from_program(sessions, source, account,
                                              block_height, emit_ok),
                  sessions)

\* The outcome of delete_session_from_account sent by source in the
\* current state.
DeletedFromAccount(source, emit_ok) ==
    unwrap_result(delete_session_from_account(sessions, source, emit_ok),
                  sessions)

\* The call changes neither the store nor the pending cleanups and emits
\* nothing.
NoEffect(out) ==
    /\ out.sessions = sessions
    /\ out.sent = << >>
    /\ out.events = << >>

\* C1 as stated: create_session for an owner with an active session
\* always fails with AlreadyHaveActiveSession and changes nothing.
C1_AlwaysAlreadyActive ==
    \A c \in Calls :
        Active(OwnerOf(c.source, c.signature_data, c.signature)) =>
            \A h \in HostOutcomes :
                LET out == Created(c, h)
                IN  /\ out.result = "AlreadyHaveActiveSession"
                    /\ NoEffect(out)

\* C1 amended: create_session for an owner with an active session never
\* succeeds and changes nothing; its error is AlreadyHaveActiveSession
\* whenever the request passes the checks of duration and action list
\* that come before the owner lookup.
C1_ActiveOwnerRejected ==
    \A c \in Calls :
        Active(OwnerOf(c.source, c.signature_data, c.signature)) =>
            \A h \in HostOutcomes :
                LET out == Created(c, h)
                IN  /\ out.result # "Ok"
                    /\ NoEffect(out)
                    /\ Acceptable(c.signature_data) =>
                           out.result = "AlreadyHaveActiveSession"

\* A create_session was just refused for an owner whose session is active.
C1_Witness ==
    /\ last.op = "create_session"
    /\ last.result = "AlreadyHaveActiveSession"
    /\ Active(last.account)

\* The host outcomes by name.
AllOk == [send_ok |-> TRUE, emit_ok |-> TRUE]
SendFails == [send_ok |-> FALSE, emit_ok |-> TRUE]
EmitFails == [send_ok |-> TRUE, emit_ok |-> FALSE]

\* A cleanup message for account is pending and due at the current block.
CleanupDue(account) ==
    \E m \in BagToSet(scheduled) :
        m.payload[3] = account /\ m.deliver_at <= block_height

\* C2: when the program's own cleanup message for an owner is due while
\* the owner's stored session is still active,
\* delete_session_from_program fails with TooEarlyToDeleteSession and the
\* store still holds that same session.
C2_StaleCleanupKeepsSession ==
    \A account \in ActorIds :
        (Active(account) /\ CleanupDue(account)) =>
            \A emit_ok \in BOOLEAN :
                LET out == DeletedFromProgram(program_id, account, emit_ok)
                IN  /\ out.result = "TooEarlyToDeleteSession"
                    /\ account \in DOMAIN out.sessions
                    /\ out.sessions[account] = sessions[account]
                    /\ out.events = << >>

\* The cleanup message of an earlier session of the owner is due while
\* the session stored for the owner, created later, is still active and
\* has its own cleanup message pending.
C2_Witness ==
    \E account \in ActorIds :
        /\ Active(account)
        /\ CleanupDue(account)
        /\ \E m \in BagToSet(scheduled) :
               /\ m.payload[3] = account
               /\ m.deliver_at = sessions[account].expires_at_block

\* C3: a create_session that gets as far as sending the cleanup message
\* and cannot send it fails with SendMessageFailed and leaves the store
\* exactly as it was, with nothing sent and nothing emitted: no call
\* stores a session whose cleanup message was not sent.
C3_SendFailureRestoresStore ==
    \A c \in Calls :
        Created(c, AllOk).result = "Ok" =>
            LET out == Created(c, SendFails)
            IN  /\ out.result = "SendMessageFailed"
                /\ out.sessions = sessions
                /\ NoEffect(out)

\* A create_session has just failed with SendMessageFailed and the store
\* holds no session for the owner it named.
C3_Witness ==
    /\ last.op = "create_session"
    /\ last.result = "SendMessageFailed"
    /\ last.account \notin DOMAIN sessions

\* C4 as stated: a create_session that has inserted the session and sent
\* the cleanup message and then cannot emit SessionCreated reports
\* EmitEventFailed, and the session stays in the store and the cleanup
\* message stays sent.
C4_EmitFailureKeepsSession ==
    \A c \in Calls :
        Created(c, AllOk).result = "Ok" =>
            LET out == Created(c, EmitFails)
                owner == OwnerOf(c.source, c.signature_data, c.signature)
            IN  /\ out.result = "EmitEventFailed"
                /\ out.events = << >>
                /\ owner \in DOMAIN out.sessions
                /\ out.sessions[owner].allowed_actions =
                       c.signature_data.allowed_actions
                /\ out.sessions = Created(c, AllOk).sessions
                /\ Len(out.sent) = 1
                /\ out.sent[1].destination = program_id
                /\ out.sent[1].payload[3] = owner

\* C5 as stated: every successful create_session stores expires_at_block
\* equal to the block height at creation plus ceil(duration /
\* ms_per_block), as an exact sum.
C5_ExpiresAtBlockIsExactSum ==
    \A c \in Calls :
        LET out == Created(c, AllOk)
            owner == OwnerOf(c.source, c.signature_data, c.signature)
        IN  out.result = "Ok" =>
                out.sessions[owner].expires_at_block =
                    block_height
                    + div_ceil(c.signature_data.duration, config.ms_per_block)

\* C6 as stated: create_session with a duration whose count of blocks
\* does not fit in u32 fails with DurationIsLarge and changes nothing.
C6_LargeDurationIsTypedError ==
    \A c \in Calls :
        div_ceil(c.signature_data.duration, config.ms_per_block) > U32Max =>
            \A h \in HostOutcomes :
                LET out == Created(c, h)
                IN  out.result = "DurationIsLarge" /\ NoEffect(out)

\* Every entry of the store but the one under account is the same in
\* after as in the current store.
OthersUntouched(after, account) ==
    /\ DOMAIN after \ {account} = DOMAIN sessions \ {account}
    /\ \A a \in DOMAIN sessions \ {account} : after[a] = sessions[a]

\* C7: a create_session without a signature that succeeds stores the
\* session under the sender with the request's key as its key; with a
\* signature it stores the session under the request's key with the
\* sender as its key; whatever the outcome, no entry under another
\* account is created or changed.
C7_OwnerAndKeyByPath ==
    \A c \in Calls : \A h \in HostOutcomes :
        LET out == Created(c, h)
            owner == IF c.signature = None THEN c.source ELSE c.signature_data.key
            delegate == IF c.signature = None THEN c.signature_data.key ELSE c.source
        IN  /\ OthersUntouched(out.sessions, owner)
            /\ out.result = "Ok" =>
                   /\ owner \in DOMAIN out.sessions
                   /\ out.sessions[owner].key = delegate
                   /\ out.sessions[owner].allowed_actions =
                          c.signature_data.allowed_actions

\* bob holds a session he created himself for the key alice, and a
\* create_session with a signature, sent by bob, has just stored a
\* session under alice with bob as its key.
C7_Witness ==
    /\ last = Call("create_session", "alice", TRUE, "Ok")
    /\ "alice" \in DOMAIN sessions /\ sessions["alice"].key = "bob"
    /\ "bob" \in DOMAIN sessions /\ sessions["bob"].key = "alice"

\* What a signature that does not verify for call c is rejected with:
\* malformed bytes first, then a key that is no public key, then a
\* signature that is not the owner's over the request with the sender as
\* its key.
ExpectedSignatureError(c) ==
    IF ~c.signature.well_formed THEN "BadSignature"
    ELSE IF c.signature_data.key \notin ValidPublicKeys THEN "BadPublicKey"
    ELSE IF c.signature # grant(c.signature_data.key, c.source,
                                c.signature_data.duration,
                                c.signature_data.allowed_actions)
    THEN "VerificationFailed"
    ELSE "Ok"

\* C8 as stated: create_session with a signature that does not verify
\* fails with BadSignature, BadPublicKey or VerificationFailed and
\* changes nothing.
C8_AlwaysSignatureError ==
    \A c \in Calls :
        (c.signature.some /\ ExpectedSignatureError(c) # "Ok") =>
            \A h \in HostOutcomes :
                LET out == Created(c, h)
                IN  /\ out.result \in {"BadSignature", "BadPublicKey",
                                       "VerificationFailed"}
                    /\ NoEffect(out)

\* C8 amended: create_session with a signature that does not verify never
\* succeeds and changes nothing; when the request passes the checks of
\* duration and action list and the owner has no active session, the
\* error is BadSignature for malformed signature bytes, else BadPublicKey
\* for a malformed key, else VerificationFailed.
C8_BadSignatureRejected ==
    \A c \in Calls :
        (c.signature.some /\ ExpectedSignatureError(c) # "Ok") =>
            \A h \in HostOutcomes :
                LET out == Created(c, h)
                IN  /\ out.result # "Ok"
                    /\ NoEffect(out)
                    /\ (Acceptable(c.signature_data)
                        /\ ~Active(c.signature_data.key)) =>
                           out.result = ExpectedSignatureError(c)

\* A create_session with a signature was just refused with
\* VerificationFailed, and the store holds no session for its owner.
C8_Witness ==
    /\ last = Call("create_session", "alice", TRUE, "VerificationFailed")
    /\ "alice" \notin DOMAIN sessions

\* C9: create_session with a signature stores a session only if the
\* signature is the owner's, in the context "substrate", over the wrapped
\* encoding of the request with the sender as its key and the request's
\* own duration and actions.
C9_SignatureBindsSender ==
    \A c \in Calls : \A h \in HostOutcomes :
        LET out == Created(c, h)
            sd == c.signature_data
        IN  (c.signature.some /\ (out.result = "Ok" \/ out.sessions # sessions)) =>
                /\ c.signature.well_formed
                /\ c.signature.signer = sd.key
                /\ c.signature.context = "substrate"
                /\ c.signature.message =
                       <<"<Bytes>", c.source, sd.duration,
                         Len(sd.allowed_actions)>>
                       \o sd.allowed_actions \o <<"</Bytes>">>

\* A create_session with alice's signature has just succeeded, and the
\* session under alice has a key other than alice: the sender the
\* signature names.
C9_Witness ==
    /\ last.op = "create_session" /\ last.signed /\ last.result = "Ok"
    /\ last.account \in DOMAIN sessions
    /\ sessions[last.account].key # last.account
    /\ events = <<"SessionCreated">>

\* The part of C10 with the emit succeeding: delete_session_from_account
\* by an owner with a stored session, expired or not, removes it and no
\* other and emits SessionDeleted, and session_for_the_account(owner) is
\* None afterwards.
DeleteRemovesWhenEmitted ==
    \A owner \in DOMAIN sessions :
        LET out == DeletedFromAccount(owner, TRUE)
        IN  /\ out.result = "Ok"
            /\ owner \notin DOMAIN out.sessions
            /\ OthersUntouched(out.sessions, owner)
            /\ session_for_the_account(out.sessions, owner) = << >>
            /\ out.sent = << >>
            /\ out.events = <<"SessionDeleted">>

\* C10 as stated: delete_session_from_account by an owner with a stored
\* session, expired or not, removes it and emits SessionDeleted, and
\* session_for_the_account(owner) is None afterwards.
C10_DeleteAlwaysRemoves ==
    \A owner \in DOMAIN sessions : \A emit_ok \in BOOLEAN :
        LET out == DeletedFromAccount(owner, emit_ok)
        IN  /\ owner \notin DOMAIN out.sessions
            /\ session_for_the_account(out.sessions, owner) = << >>
            /\ out.events = <<"SessionDeleted">>

\* C11: delete_session_from_program sent by anyone but the program fails
\* with MessageOnlyForProgram and changes nothing, whatever account it
\* names and whether that account has a session, active or expired.
C11_OnlyProgramDeletes ==
    \A source \in Sources : \A account \in ActorIds : \A emit_ok \in BOOLEAN :
        LET out == DeletedFromProgram(source, account, emit_ok)
        IN  source # program_id =>
                out.result = "MessageOnlyForProgram" /\ NoEffect(out)

\* An account has just sent delete_session_from_program for an owner
\* whose session has expired, was refused, and the session is still
\* stored.
C11_Witness ==
    /\ last.op = "delete_session_from_program"
    /\ last.result = "MessageOnlyForProgram"
    /\ last.account \in DOMAIN sessions
    /\ ~Active(last.account)

\* The part of C12 with the emit succeeding: the program's
\* delete_session_from_program for an owner whose stored session has
\* expired removes the entry and emits SessionDeleted; and a session
\* that a stale callback was refused for is still in the store, active,
\* for the callback at its own expiry to remove.
ExpiredIsRemoved ==
    /\ \A account \in DOMAIN sessions :
           ~Active(account) =>
               LET out == DeletedFromProgram(program_id, account, TRUE)
               IN  /\ out.result = "Ok"
                   /\ account \notin DOMAIN out.sessions
                   /\ out.events = <<"SessionDeleted">>
    /\ \A account \in ActorIds :
           last = Call("cleanup", account, FALSE, "TooEarlyToDeleteSession") =>
               Active(account)

\* C12 as stated: delete_session_from_program sent by the program for an
\* owner whose stored session has expired removes the entry and emits
\* SessionDeleted, the callback that comes at a replacement's own expiry
\* included.
C12_ExpiredRemovedByOwnCallback ==
    \A account \in DOMAIN sessions :
        ~Active(account) =>
            \A emit_ok \in BOOLEAN :
                LET out == DeletedFromProgram(program_id, account, emit_ok)
                IN  /\ account \notin DOMAIN out.sessions
                    /\ out.events = <<"SessionDeleted">>

\* C13 as stated: delete_session_from_program sent by the program for an
\* owner with no stored session succeeds, emits SessionDeleted and leaves
\* the store unchanged, as often as it is repeated.
C13_AbsentAlwaysSucceeds ==
    \A account \in ActorIds \ DOMAIN sessions : \A emit_ok \in BOOLEAN :
        LET out == DeletedFromProgram(program_id, account, emit_ok)
        IN  /\ out.result = "Ok"
            /\ out.events = <<"SessionDeleted">>
            /\ out.sessions = sessions

\* C13 amended: delete_session_from_program sent by the program for an
\* owner with no stored session leaves the store unchanged and sends
\* nothing; it succeeds and emits SessionDeleted unless the emit fails,
\* and then it fails with EmitEventFailed; repeated on the store it leaves,
\* with the same emit outcome, it gives the same result.
C13_AbsentIsNoOp ==
    \A account \in ActorIds \ DOMAIN sessions : \A emit_ok \in BOOLEAN :
        LET out == DeletedFromProgram(program_id, account, emit_ok)
            again == unwrap_result(
                         delete_session_from_program(out.sessions, program_id,
                                                     account, block_height,
                                                     emit_ok),
                         out.sessions)
        IN  /\ out.sessions = sessions
            /\ out.sent = << >>
            /\ emit_ok => out.result = "Ok" /\ out.events = <<"SessionDeleted">>
            /\ ~emit_ok => out.result = "EmitEventFailed" /\ out.events = << >>
            /\ again = out

\* The owner cancelled the session with delete_session_from_account, no
\* session is stored for them, and the cleanup message of the cancelled
\* session is due.
C13_Witness ==
    /\ last.op = "delete_session_from_account" /\ last.result = "Ok"
    /\ last.account \notin DOMAIN sessions
    /\ CleanupDue(last.account)

\* C14: a stored session that has expired does not count in
\* create_session: the call returns, sends and emits what it would with no
\* entry for the owner, and when it succeeds the store is the one it
\* would leave with no entry for the owner, the entry under the owner
\* being the new session with the new key and actions.
C14_ExpiredEntryOverwritten ==
    \A c \in Calls : \A h \in HostOutcomes :
        LET owner == OwnerOf(c.source, c.signature_data, c.signature)
            delegate == IF c.signature.some THEN c.source ELSE c.signature_data.key
            out == Created(c, h)
            fresh == unwrap_result(
                         create_session(remove(sessions, owner), c.source,
                                        block_height, c.signature_data,
                                        c.signature, h.send_ok, h.emit_ok),
                         remove(sessions, owner))
        IN  (owner \in DOMAIN sessions /\ ~Active(owner)) =>
                /\ out.result = fresh.result
                /\ out.sent = fresh.sent
                /\ out.events = fresh.events
                /\ out.result = "Ok" =>
                       /\ out.sessions = fresh.sessions
                       /\ out.sessions[owner].key = delegate
                       /\ out.sessions[owner].allowed_actions =
                              c.signature_data.allowed_actions

\* alice's session, with alice herself as its key, has expired and is
\* still stored, its cleanup message being due and not delivered.
C14_Witness ==
    /\ "alice" \in DOMAIN sessions
    /\ sessions["alice"].key = "alice"
    /\ ~Active("alice")
    /\ CleanupDue("alice")
    /\ last.op = "next_block"

\* C15 as stated: every successful create_session sends exactly one
\* delayed message, to the program itself, that carries
\* DeleteSessionFromProgram with the session's owner and
\* gas_to_delete_session, and whose delay ends at the block that the
\* stored session has as expires_at_block.
C15_OneCleanupAtExpiry ==
    \A c \in Calls :
        LET out == Created(c, AllOk)
            owner == OwnerOf(c.source, c.signature_data, c.signature)
        IN  out.result = "Ok" =>
                /\ Len(out.sent) = 1
                /\ out.sent[1].destination = program_id
                /\ out.sent[1].payload =
                       <<"Session", "DeleteSessionFromProgram", owner>>
                /\ out.sent[1].gas = config.gas_to_delete_session
                /\ block_height + out.sent[1].delay =
                       out.sessions[owner].expires_at_block

\* C16: create_session with a duration below
\* minimum_session_duration_ms fails with DurationIsSmall and changes
\* nothing, whatever else the call carries; with the minimum itself it
\* does not fail with DurationIsSmall.
C16_SmallDurationRejected ==
    \A c \in Calls : \A h \in HostOutcomes :
        LET out == Created(c, h)
            duration == c.signature_data.duration
        IN  /\ duration < config.minimum_session_duration_ms =>
                   out.result = "DurationIsSmall" /\ NoEffect(out)
            /\ duration = config.minimum_session_duration_ms =>
                   out.result # "DurationIsSmall"

\* A create_session was just refused with DurationIsSmall, for an owner
\* who has an active session: the test of the duration came first.
C16_Witness ==
    /\ last.op = "create_session"
    /\ last.result = "DurationIsSmall"
    /\ Active(last.account)

\* C17 as stated: create_session with an empty allowed_actions fails with
\* ThereAreNoAllowedMessages, whatever the duration.
C17_EmptyActionsAnyDuration ==
    \A c \in Calls : \A h \in HostOutcomes :
        c.signature_data.allowed_actions = << >> =>
            Created(c, h).result = "ThereAreNoAllowedMessages"

\* C17 amended: create_session with an empty allowed_actions never
\* succeeds and changes nothing; it fails with ThereAreNoAllowedMessages
\* for every duration that is not below the minimum and whose count of
\* blocks fits in u32, whoever the owner is and whatever signature comes
\* with it.
C17_EmptyActionsRejected ==
    \A c \in Calls : \A h \in HostOutcomes :
        LET out == Created(c, h)
            duration == c.signature_data.duration
        IN  c.signature_data.allowed_actions = << >> =>
                /\ out.result # "Ok"
                /\ NoEffect(out)
                /\ (/\ duration >= config.minimum_session_duration_ms
                    /\ div_ceil(duration, config.ms_per_block) <= U32Max) =>
                       out.result = "ThereAreNoAllowedMessages"

\* A create_session was just refused with ThereAreNoAllowedMessages, and
\* nothing is stored for its owner.
C17_Witness ==
    /\ last.op = "create_session"
    /\ last.result = "ThereAreNoAllowedMessages"
    /\ last.account \notin DOMAIN sessions

\* C18: delete_session_from_account from a sender with no stored session
\* fails with NoSession, emits nothing and leaves the store as it is.
C18_NoSessionToDelete ==
    \A source \in Sources \ DOMAIN sessions : \A emit_ok \in BOOLEAN :
        LET out == DeletedFromAccount(source, emit_ok)
        IN  out.result = "NoSession" /\ NoEffect(out)

\* A sender with no session was just refused with NoSession while the
\* other account's session is stored.
C18_Witness ==
    /\ last.op = "delete_session_from_account"
    /\ last.result = "NoSession"
    /\ last.account \notin DOMAIN sessions
    /\ DOMAIN sessions # {}

\* C19 as stated: every call of create_session, of
\* delete_session_from_account and of delete_session_from_program ends
\* with Ok or with a SessionError given to the caller; none ends in a
\* panic of the execution.
C19_EveryCallIsTyped ==
    /\ \A c \in Calls : \A h \in HostOutcomes :
           /\ Created(c, h).result \in {"Ok"} \cup SessionError
           /\ ~panicked(Created(c, h))
    /\ \A source \in Sources : \A emit_ok \in BOOLEAN :
           /\ DeletedFromAccount(source, emit_ok).result
                  \in {"Ok"} \cup SessionError
           /\ ~panicked(DeletedFromAccount(source, emit_ok))
    /\ \A source \in Sources \cup {program_id} : \A account \in ActorIds :
           \A emit_ok \in BOOLEAN :
               /\ DeletedFromProgram(source, account, emit_ok).result
                      \in {"Ok"} \cup SessionError
               /\ ~panicked(DeletedFromProgram(source, account, emit_ok))

\* C20: every session in the store has a non-empty allowed_actions.
C20_StoredActionsNonEmpty ==
    \A account \in DOMAIN sessions : sessions[account].allowed_actions # << >>

\* Both accounts have a session stored, and a create_session with an empty
\* allowed_actions was just refused.
C20_Witness ==
    /\ DOMAIN sessions = ActorIds
    /\ last.op = "create_session"
    /\ last.result = "ThereAreNoAllowedMessages"

\* C21: the store holds at most one session per owner.  It is a map whose
\* keys are owners, so an owner has one entry or none; and no call of
\* create_session, delete_session_from_account or
\* delete_session_from_program leaves a key that is not an owner, or more
\* entries than the store had and the owner it is about.
C21_OneSessionPerOwner ==
    /\ DOMAIN sessions \subseteq ActorIds
    /\ \A c \in Calls : \A h \in HostOutcomes :
           DOMAIN Created(c, h).sessions \subseteq
               DOMAIN sessions \cup {OwnerOf(c.source, c.signature_data, c.signature)}
    /\ \A source \in Sources : \A emit_ok \in BOOLEAN :
           DOMAIN DeletedFromAccount(source, emit_ok).sessions
               \subseteq DOMAIN sessions
    /\ \A source \in Sources \cup {program_id} : \A account \in ActorIds :
           \A emit_ok \in BOOLEAN :
               DOMAIN DeletedFromProgram(source, account, emit_ok).sessions
                   \subseteq DOMAIN sessions

\* A create_session just succeeded at a later block while the other
\* owner's session, stored earlier and expired, is still in the store:
\* two owners, one entry each.
C21_Witness ==
    /\ last.op = "create_session" /\ last.result = "Ok"
    /\ DOMAIN sessions = ActorIds
    /\ \E other \in ActorIds \ {last.account} : ~Active(other)
    /\ Active(last.account)

\* The first check of create_session that call c fails in the current
\* state, in the order duration too small, duration too large, no allowed
\* actions, owner with an active session, signature; "Ok" when it passes
\* them all.
FirstFailingCheck(c) ==
    IF c.signature_data.duration < config.minimum_session_duration_ms
    THEN "DurationIsSmall"
    ELSE IF div_ceil(c.signature_data.duration, config.ms_per_block) > U32Max
    THEN "DurationIsLarge"
    ELSE IF c.signature_data.allowed_actions = << >>
    THEN "ThereAreNoAllowedMessages"
    ELSE IF Active(OwnerOf(c.source, c.signature_data, c.signature))
    THEN "AlreadyHaveActiveSession"
    ELSE IF c.signature.some THEN ExpectedSignatureError(c)
    ELSE "Ok"

\* The part of C22 on the order alone: a create_session that returns one
\* of the errors of its checks returns the error of the first check that
\* fails, and a call that fails a check never succeeds and changes nothing.
ChecksInOrder ==
    \A c \in Calls : \A h \in HostOutcomes :
        LET out == Created(c, h)
        IN  /\ out.result \in {"DurationIsSmall", "DurationIsLarge",
                               "ThereAreNoAllowedMessages",
                               "AlreadyHaveActiveSession", "BadSignature",
                               "BadPublicKey", "VerificationFailed"} =>
                   out.result = FirstFailingCheck(c)
            /\ FirstFailingCheck(c) # "Ok" =>
                   out.result # "Ok" /\ NoEffect(out)

\* The particular case of C22: a request that passes the checks of
\* duration and action list and carries a signature that does not verify,
\* for an owner whose session is active, fails with
\* AlreadyHaveActiveSession.
ActiveBeforeSignature ==
    \A c \in Calls : \A h \in HostOutcomes :
        (/\ Acceptable(c.signature_data)
         /\ c.signature.some
         /\ ExpectedSignatureError(c) # "Ok"
         /\ Active(c.signature_data.key)) =>
            Created(c, h).result = "AlreadyHaveActiveSession"

\* C22 as stated: create_session reports the first check that fails, in
\* the order duration too small, duration too large, no allowed actions,
\* owner with an active session, signature errors; in particular an
\* invalid signature for an owner with an active session gives
\* AlreadyHaveActiveSession.
C22_FirstFailingCheckReported ==
    /\ ActiveBeforeSignature
    /\ \A c \in Calls : \A h \in HostOutcomes :
           FirstFailingCheck(c) # "Ok" =>
               Created(c, h).result = FirstFailingCheck(c)

\* The step takes account's active session away: the entry is gone or is
\* another record.
TakenAway(account) ==
    /\ Active(account)
    /\ \/ account \notin DOMAIN sessions'
       \/ sessions'[account] # sessions[account]

\* C23: only delete_session_from_account sent by the owner takes away a
\* session whose expires_at_block is above the block height;
\* create_session does not, and no cleanup message does, a stale one of an
\* earlier session of the same owner included.
C23_ActiveOnlyOwnerRemoves ==
    [][\A account \in ActorIds :
           TakenAway(account) =>
               /\ last'.op = "delete_session_from_account"
               /\ last'.account = account]_vars

\* A stale cleanup message has just been delivered and refused, and the
\* session of its owner is in the store, still active.
C23_Witness ==
    /\ last.op = "cleanup"
    /\ last.result = "TooEarlyToDeleteSession"
    /\ Active(last.account)

\* A cleanup message for account is pending whose delivery block is the
\* expires_at_block of the session stored for account.
CleanupPendingAtExpiry(account) ==
    \E m \in BagToSet(scheduled) :
        /\ m.payload[3] = account
        /\ m.deliver_at = sessions[account].expires_at_block

\* The part of C24 on create_session: the session a call has just stored
\* has its cleanup message pending, due at the session's
\* expires_at_block.
SentCleanupPendingAtExpiry ==
    (last.op = "create_session" /\ last.result = "Ok") =>
        /\ last.account \in DOMAIN sessions
        /\ CleanupPendingAtExpiry(last.account)

\* C24 as stated: in every reachable state every session in the store
\* has a cleanup message for its owner that is not yet delivered and is
\* due at the session's expires_at_block.
C24_StoredHasCleanupPending ==
    \A account \in DOMAIN sessions : CleanupPendingAtExpiry(account)

\* account has a session stored that expires at block b.
StoredUntil(account, b) ==
    /\ account \in DOMAIN sessions
    /\ sessions[account].expires_at_block = b

\* C25 as stated, with blocks that keep coming and every due cleanup
\* message delivered: every session that is stored, with an
\* expires_at_block among the blocks the chain reaches, is eventually no
\* longer in the store.
C25_StoredEventuallyRemoved ==
    \A account \in ActorIds : \A b \in 0 .. MaxHeight :
        StoredUntil(account, b) ~> ~StoredUntil(account, b)

\* The stores in which owner has no active session at block h, got from
\* store, where owner has one: after owner cancelled it with
\* delete_session_from_account, after it expired, and after the program's
\* cleanup removed it.
InactiveAfter(store, owner, h) ==
    {unwrap_result(delete_session_from_account(store, owner, TRUE),
                   store).sessions}
    \cup IF store[owner].expires_at_block <= h
         THEN {store,
               unwrap_result(delete_session_from_program(store, program_id,
                                                         owner, h, TRUE),
                             store).sessions}
         ELSE {}

\* Call c, accepted in the current state with its signature, is made
\* again at block h with the same sender, request and signature, the
\* owner having no active session: it succeeds and stores a session for
\* the owner with the sender as key and the expiry counted from block h.
ReplayCreates(c, h) ==
    LET owner == c.signature_data.key
        number_of_blocks == div_ceil(c.signature_data.duration, config.ms_per_block)
    IN  \A store \in InactiveAfter(Created(c, AllOk).sessions, owner, h) :
            LET again == unwrap_result(
                             create_session(store, c.source, h, c.signature_data,
                                            c.signature, TRUE, TRUE),
                             store)
            IN  /\ again.result = "Ok"
                /\ owner \in DOMAIN again.sessions
                /\ again.sessions[owner] =
                       [key |-> c.source,
                        expires |-> block_timestamp(h) + c.signature_data.duration,
                        allowed_actions |-> c.signature_data.allowed_actions,
                        expires_at_block |-> h + number_of_blocks]
                /\ Len(again.sent) = 1

\* The part of C26 that holds: the replay of an accepted signed call
\* creates the session whenever the block of the replay plus the
\* session's number of blocks fits u32.
ReplayCreatesWhereSumFits ==
    \A c \in Calls :
        (c.signature.some /\ Created(c, AllOk).result = "Ok") =>
            \A h \in block_height .. MaxHeight + 1 :
                h + div_ceil(c.signature_data.duration, config.ms_per_block)
                        <= U32Max
                    => ReplayCreates(c, h)

\* C26 as stated: an accepted signature is not used up.  Whenever the
\* owner has no active session again (the session expired, the cleanup
\* removed it, or the owner cancelled it), the same sender with the same
\* request and signature creates a new session for the owner with a
\* fresh expiry.
C26_ReplayCreatesSession ==
    \A c \in Calls :
        (c.signature.some /\ Created(c, AllOk).result = "Ok") =>
            \A h \in block_height .. MaxHeight + 1 : ReplayCreates(c, h)

====
